---- MODULE Spec2Model ----
(***************************************************************************)
(* LoginPage (frontend/src/pages/LoginPage.tsx): the four useState cells,  *)
(* the async handleSubmit handler split at its single await, the rendered  *)
(* error box and submit button, and the router's history as far as         *)
(* navigate(from, { replace: true }) touches it.                           *)
(***************************************************************************)
EXTENDS Integers, Sequences, FiniteSets, TLC

\* ---------------------------------------------------------------- bounds
MaxCalls == 2

\* ---------------------------------------------------------------- values
Null == "<null>"
Undefined == "<undefined>"
DefaultPath == "/orders"
LoginPath == "/login"

Emails == {"", "a@x.io", "b@x.io"}
Passwords == {"", "pw1"}

\* location.state as the router hands it over: absent, without `from`,
\* with a `from` lacking `pathname`, or with a pathname (possibly empty).
LocStates ==
    { [shape |-> "none",   pathname |-> Undefined],
      [shape |-> "nofrom", pathname |-> Undefined],
      [shape |-> "nopath", pathname |-> Undefined],
      [shape |-> "path",   pathname |-> ""],
      [shape |-> "path",   pathname |-> "/dashboard/settings"] }

\* values api.login may reject with
RejectValues ==
    { [kind |-> "Error",  message |-> "Invalid credentials"],
      [kind |-> "Error",  message |-> ""],
      [kind |-> "object", message |-> "Invalid credentials"],
      [kind |-> "string", message |-> Undefined] }

OtherPaths == {"/"}

VARIABLES email, password, loading, error,
          mounted, locState, history, cur,
          calls, navigations, consoleLog, submits

view == <<email, password, loading, error>>
vars == <<email, password, loading, error, mounted, locState, history, cur,
          calls, navigations, consoleLog, submits>>

\* ------------------------------------------------------- rendered output
ButtonDisabled_Never == FALSE

\* disabled={loading}
ButtonDisabled == loading

ButtonLabel == IF loading THEN "Signing in..." ELSE "Sign in"

\* {error && <div>{error}</div>}: the text the error box puts on screen
ErrorText == IF error = Null \/ error = "" THEN "" ELSE error

\* ------------------------------------------------------- state setters
\* a setter of an unmounted component is dropped
SetLoading(v) == IF mounted THEN v ELSE loading

SetError(v) == IF mounted THEN v ELSE error

\* ------------------------------------------------------- pure helpers
\* location.state?.from?.pathname
FromPathname(s) == IF s.shape = "path" THEN s.pathname ELSE Undefined

RedirectTarget_AlwaysDefault(s) == DefaultPath

\* location.state?.from?.pathname || "/orders"
RedirectTarget(s) ==
    IF FromPathname(s) = Undefined \/ FromPathname(s) = ""
    THEN DefaultPath ELSE FromPathname(s)

ErrorMessage_AlwaysMessage(err) ==
    IF err.message = Undefined THEN "Login failed" ELSE err.message

\* err instanceof Error ? err.message : "Login failed"
ErrorMessage(err) == IF err.kind = "Error" THEN err.message ELSE "Login failed"

LoginCall_Swapped(e, p) ==
    [email |-> p, password |-> e, status |-> "pending", rejection |-> Null]

\* api.login(email, password): the call as issued
LoginCall(e, p) ==
    [email |-> e, password |-> p, status |-> "pending", rejection |-> Null]

\* navigate(to, { replace }) on the history stack
NavigateHistory(to, replace) ==
    IF replace THEN [history EXCEPT ![cur] = to]
    ELSE Append(SubSeq(history, 1, cur), to)

NavigateCur(replace) == IF replace THEN cur ELSE cur + 1

Pending == {i \in DOMAIN calls : calls[i].status = "pending"}

\* ---------------------------------------------------------------- Init
Init ==
    /\ email = ""
    /\ password = ""
    /\ loading = FALSE
    /\ error = Null
    /\ mounted = TRUE
    /\ locState \in LocStates
    /\ history \in {<<LoginPath>>, <<"/", LoginPath>>}
    /\ cur = Len(history)
    /\ calls = <<>>
    /\ navigations = <<>>
    /\ consoleLog = <<>>
    /\ submits = 0

\* ---------------------------------------------------------------- actions
\* onChange={(e) => setEmail(e.target.value)}
SetEmail(v) ==
    /\ mounted
    /\ email' = v
    /\ UNCHANGED <<password, loading, error, mounted, locState, history, cur,
                   calls, navigations, consoleLog, submits>>

\* onChange={(e) => setPassword(e.target.value)}
SetPassword(v) ==
    /\ mounted
    /\ password' = v
    /\ UNCHANGED <<email, loading, error, mounted, locState, history, cur,
                   calls, navigations, consoleLog, submits>>

Submit_NoLoading ==
    /\ mounted
    /\ ~ButtonDisabled
    /\ email # "" /\ password # ""
    /\ Len(calls) < MaxCalls
    /\ error' = SetError(Null)
    /\ calls' = Append(calls, LoginCall(email, password))
    /\ submits' = submits + 1
    /\ UNCHANGED <<loading, email, password, mounted, locState, history, cur,
                   navigations, consoleLog>>

Submit_KeepsError ==
    /\ mounted
    /\ ~ButtonDisabled
    /\ email # "" /\ password # ""
    /\ Len(calls) < MaxCalls
    /\ loading' = SetLoading(TRUE)
    /\ calls' = Append(calls, LoginCall(email, password))
    /\ UNCHANGED <<error, email, password, mounted, locState, history, cur,
                   navigations, consoleLog>>
    /\ submits' = submits + 1

\* handleSubmit up to the await: the form fires submit only while the
\* submit button is enabled and both required fields are filled
Submit ==
    /\ mounted
    /\ ~ButtonDisabled
    /\ email # "" /\ password # ""
    /\ Len(calls) < MaxCalls
    /\ loading' = SetLoading(TRUE)
    /\ error' = SetError(Null)
    /\ calls' = Append(calls, LoginCall(email, password))
    /\ UNCHANGED <<email, password, mounted, locState, history, cur,
                   navigations, consoleLog>>
    /\ submits' = submits + 1

Resolve_NavigatesTwice(i, stays) ==
    /\ i \in Pending
    /\ calls' = [calls EXCEPT ![i].status = "resolved"]
    /\ consoleLog' = Append(consoleLog, calls[i].email)
    /\ navigations' = navigations \o
           << [to |-> RedirectTarget(locState), replace |-> TRUE, call |-> i],
              [to |-> RedirectTarget(locState), replace |-> TRUE, call |-> i] >>
    /\ history' = NavigateHistory(RedirectTarget(locState), TRUE)
    /\ cur' = NavigateCur(TRUE)
    /\ mounted' = (mounted /\ stays)
    /\ loading' = IF mounted /\ stays THEN FALSE ELSE loading
    /\ UNCHANGED <<email, password, error, locState, submits>>

\* handleSubmit after the await, api.login resolved: log, navigate, finally.
\* stays: whether the router still renders this view once the navigation
\* and the queued setLoading(false) have been committed.
Resolve(i, stays) ==
    /\ i \in Pending
    /\ calls' = [calls EXCEPT ![i].status = "resolved"]
    /\ consoleLog' = Append(consoleLog, calls[i].email)
    /\ navigations' = Append(navigations,
           [to |-> RedirectTarget(locState), replace |-> TRUE, call |-> i])
    /\ history' = NavigateHistory(RedirectTarget(locState), TRUE)
    /\ cur' = NavigateCur(TRUE)
    /\ mounted' = (mounted /\ stays)
    /\ loading' = IF mounted /\ stays THEN FALSE ELSE loading
    /\ UNCHANGED <<email, password, error, locState, submits>>

Reject_Navigates(i, err) ==
    /\ i \in Pending
    /\ calls' = [calls EXCEPT ![i].status = "rejected", ![i].rejection = err]
    /\ error' = SetError(ErrorMessage(err))
    /\ loading' = SetLoading(FALSE)
    /\ navigations' = Append(navigations,
           [to |-> RedirectTarget(locState), replace |-> TRUE, call |-> i])
    /\ history' = NavigateHistory(RedirectTarget(locState), TRUE)
    /\ UNCHANGED <<email, password, mounted, locState, cur, consoleLog, submits>>

Reject_ClearsPassword(i, err) ==
    /\ i \in Pending
    /\ calls' = [calls EXCEPT ![i].status = "rejected", ![i].rejection = err]
    /\ error' = SetError(ErrorMessage(err))
    /\ loading' = SetLoading(FALSE)
    /\ password' = IF mounted THEN "" ELSE password
    /\ UNCHANGED <<email, mounted, locState, history, cur,
                   navigations, consoleLog, submits>>

Reject_NoFinally(i, err) ==
    /\ i \in Pending
    /\ calls' = [calls EXCEPT ![i].status = "rejected", ![i].rejection = err]
    /\ error' = SetError(ErrorMessage(err))
    /\ UNCHANGED <<loading, email, password, mounted, locState, history, cur,
                   navigations, consoleLog, submits>>

\* handleSubmit after the await, api.login rejected with err: catch, finally
Reject(i, err) ==
    /\ i \in Pending
    /\ calls' = [calls EXCEPT ![i].status = "rejected", ![i].rejection = err]
    /\ error' = SetError(ErrorMessage(err))
    /\ loading' = SetLoading(FALSE)
    /\ UNCHANGED <<email, password, mounted, locState, history, cur,
                   navigations, consoleLog, submits>>

\* the user leaves the page by a link (push) while the view is mounted
LeaveByLink(p) ==
    /\ mounted
    /\ mounted' = FALSE
    /\ history' = NavigateHistory(p, FALSE)
    /\ cur' = NavigateCur(FALSE)
    /\ UNCHANGED <<email, password, loading, error, locState,
                   calls, navigations, consoleLog, submits>>

\* the user leaves the page with the browser's back button
LeaveByBack ==
    /\ mounted
    /\ cur > 1
    /\ mounted' = FALSE
    /\ cur' = cur - 1
    /\ UNCHANGED <<email, password, loading, error, locState, history,
                   calls, navigations, consoleLog, submits>>

Next ==
    \/ \E v \in Emails : SetEmail(v)
    \/ \E v \in Passwords : SetPassword(v)
    \/ Submit
    \/ \E i \in DOMAIN calls, stays \in BOOLEAN : Resolve(i, stays)
    \/ \E i \in DOMAIN calls, err \in RejectValues : Reject(i, err)
    \/ \E p \in OtherPaths : LeaveByLink(p)
    \/ LeaveByBack

Spec == Init /\ [][Next]_vars

\* ------------------------------------------------------- step vocabulary
SubmitStep == Len(calls') = Len(calls) + 1

ResolveStep(i) == calls[i].status = "pending" /\ calls'[i].status = "resolved"

RejectStep(i) == calls[i].status = "pending" /\ calls'[i].status = "rejected"

LeaveStep == mounted /\ ~mounted' /\ calls' = calls

Resolved == {i \in DOMAIN calls : calls[i].status = "resolved"}

SubState ==
    IF ~mounted THEN "away" ELSE IF loading THEN "submitting" ELSE "idle"

LastNav == navigations'[Len(navigations')]

\* ---------------------------------------------------------------- claims

\* C1: when api.login resolves, the handler issues one navigate to the
\* pathname supplied in location.state.from when there is one and to
\* "/orders" when no prior context was supplied, with replace: true, so the
\* current history entry is overwritten by the target and none is added.
C1_RedirectReplaces ==
    [][\A i \in DOMAIN calls : ResolveStep(i) =>
          /\ Len(navigations') = Len(navigations) + 1
          /\ LastNav.replace
          /\ (locState.shape = "path" /\ locState.pathname # ""
                => LastNav.to = locState.pathname)
          /\ (locState.shape # "path" => LastNav.to = "/orders")
          /\ cur' = cur
          /\ history' = [history EXCEPT ![cur] = LastNav.to]]_vars

C1_Witness ==
    /\ Len(navigations) = 1
    /\ navigations[1].to = "/dashboard/settings"
    /\ history[cur] = "/dashboard/settings"
    /\ \A k \in DOMAIN history : history[k] # LoginPath

\* C2: when api.login rejects while the form is on screen, nothing is
\* navigated, the form stays, the submit button is enabled again, and the
\* text shown is the message of an Error and "Login failed" for any other
\* rejected value.
C2_RejectShowsMessage ==
    [][\A i \in DOMAIN calls : (RejectStep(i) /\ mounted) =>
          /\ navigations' = navigations
          /\ history' = history /\ cur' = cur
          /\ mounted'
          /\ ~ButtonDisabled' /\ ButtonLabel' = "Sign in"
          /\ ErrorText' = IF calls'[i].rejection.kind = "Error"
                          THEN calls'[i].rejection.message
                          ELSE "Login failed"]_vars

C2_Witness ==
    /\ mounted
    /\ Len(calls) = 2
    /\ calls[1].status = "rejected" /\ calls[1].rejection.kind = "Error"
    /\ calls[2].status = "rejected" /\ calls[2].rejection.kind = "object"
    /\ ErrorText = "Login failed"
    /\ ~ButtonDisabled

\* C3: while the view is mounted, the submit button is disabled and reads
\* "Signing in..." exactly while an api.login call is pending, and is
\* enabled and reads "Sign in" when none is.
C3_ButtonTracksInFlight ==
    mounted =>
        IF Pending # {}
        THEN ButtonDisabled /\ ButtonLabel = "Signing in..."
        ELSE ~ButtonDisabled /\ ButtonLabel = "Sign in"

C3_Witness ==
    /\ mounted
    /\ Len(calls) = 2
    /\ calls[1].status = "rejected"
    /\ calls[2].status = "pending"
    /\ ButtonDisabled /\ ButtonLabel = "Signing in..."

\* C4: at most one api.login call of the view is pending at any time.
C4_AtMostOneInFlight == Cardinality(Pending) <= 1

C4_Witness ==
    /\ mounted
    /\ Cardinality(Pending) = 1
    /\ email # "" /\ password # ""
    /\ Len(calls) < MaxCalls
    /\ ButtonDisabled

\* C5 (as claimed): once the view is unmounted, a late resolution or
\* rejection issues no navigation and updates no state of the view.
C5_LateOutcomeIgnored ==
    [][~mounted => (navigations' = navigations /\ view' = view)]_vars

\* C5 (amended): once the view is unmounted, no late outcome updates the
\* view's state and a late rejection issues no navigation, but a late
\* successful resolution still issues its navigate with replace.
C5_LateOutcomeAmended ==
    [][~mounted =>
          /\ view' = view
          /\ \A i \in DOMAIN calls :
                /\ RejectStep(i) =>
                      navigations' = navigations /\ history' = history
                /\ ResolveStep(i) =>
                      /\ Len(navigations') = Len(navigations) + 1
                      /\ LastNav.replace]_vars

C5_Witness ==
    /\ ~mounted
    /\ Pending = {}
    /\ calls # <<>>
    /\ calls[Len(calls)].status = "rejected"
    /\ loading
    /\ error = Null

C6_ClaimedStep ==
    /\ SubState' # SubState =>
         \/ SubmitStep /\ SubState = "idle" /\ SubState' = "submitting"
         \/ /\ \E i \in DOMAIN calls : RejectStep(i)
            /\ SubState = "submitting" /\ SubState' = "idle"
            /\ error' # Null
         \/ /\ \E i \in DOMAIN calls : ResolveStep(i)
            /\ SubState = "submitting" /\ SubState' = "away"
         \/ LeaveStep
    /\ \A i \in DOMAIN calls : ResolveStep(i) => view' = view

\* C6 (as claimed): idle at first; the only changes of submission state are
\* idle -> submitting on submit, submitting -> idle with an error on
\* rejection, submitting -> away on success (or by the user leaving), and a
\* successful resolution updates nothing of the view.
C6_TransitionsAsClaimed == (SubState = "idle") /\ [][C6_ClaimedStep]_vars

C6_AmendedStep ==
    /\ SubmitStep => SubState = "idle" /\ SubState' = "submitting"
    /\ \A i \in DOMAIN calls :
         /\ (RejectStep(i) /\ mounted) =>
               /\ SubState = "submitting" /\ SubState' = "idle"
               /\ error' # Null
         /\ (ResolveStep(i) /\ mounted) =>
               /\ SubState = "submitting"
               /\ \/ SubState' = "away" /\ view' = view
                  \/ SubState' = "idle" /\ error' = Null
    /\ SubState' # SubState =>
         \/ SubmitStep
         \/ \E i \in DOMAIN calls : RejectStep(i) \/ ResolveStep(i)
         \/ LeaveStep

\* C6 (amended): idle at first; submit takes idle to submitting, a rejection
\* takes submitting to idle with an error set, a success takes submitting
\* either to away or, when the view is still rendered after navigate, to
\* idle with no error (finally runs setLoading(false) on success too);
\* nothing else changes the submission state but the user leaving.
C6_TransitionsAmended == (SubState = "idle") /\ [][C6_AmendedStep]_vars

C6_Witness ==
    /\ SubState = "idle"
    /\ error = Null
    /\ Len(navigations) = 1
    /\ Resolved # {}

\* C7: a submit clears the error of an earlier attempt before the call is
\* made: whenever a call is pending the error is null and no error text is
\* shown.
C7_NoErrorInFlight == Pending # {} => (error = Null /\ ErrorText = "")

C7_Witness ==
    /\ mounted
    /\ Len(calls) = 2
    /\ calls[1].status = "rejected"
    /\ calls[1].rejection = [kind |-> "Error", message |-> "Invalid credentials"]
    /\ calls[2].status = "pending"
    /\ error = Null

\* C8: handling a rejection leaves the email and password fields exactly as
\* they were; of the view's state only loading and error may change.
C8_RejectKeepsFields ==
    [][\A i \in DOMAIN calls : RejectStep(i) =>
          email' = email /\ password' = password]_vars

C8_Witness ==
    /\ mounted
    /\ Len(calls) = 1
    /\ calls[1].status = "rejected"
    /\ error = "Invalid credentials"
    /\ ~loading
    /\ email = calls[1].email /\ email # ""
    /\ password = calls[1].password /\ password # ""

\* C9: a call carries the email and password of the moment of its submit;
\* typing during the call changes the fields but neither the credentials of
\* any call already made nor the number of calls.
C9_CredentialsCaptured ==
    [][/\ SubmitStep =>
            /\ calls'[Len(calls')].email = email
            /\ calls'[Len(calls')].password = password
       /\ \A i \in DOMAIN calls :
            /\ calls'[i].email = calls[i].email
            /\ calls'[i].password = calls[i].password
       /\ (email' # email \/ password' # password) =>
            Len(calls') = Len(calls)]_vars

C9_Witness ==
    /\ mounted
    /\ Len(calls) = 1
    /\ calls[1].status = "pending"
    /\ email # calls[1].email
    /\ password # calls[1].password

\* C10: every submit makes exactly one api.login call, and the navigations
\* issued are exactly one per successfully resolved call: none for a
\* rejected or a pending call.
C10_NavigateOnlyOnSuccess ==
    /\ Len(calls) = submits
    /\ Len(navigations) = Cardinality(Resolved)
    /\ \A k \in DOMAIN navigations : navigations[k].call \in Resolved
    /\ \A k, l \in DOMAIN navigations :
          navigations[k].call = navigations[l].call => k = l

C10_Witness ==
    /\ Len(calls) = 2
    /\ calls[1].status = "rejected"
    /\ calls[2].status = "resolved"
    /\ Len(navigations) = 1
    /\ navigations[1].call = 2

====
